---- MODULE Spec2Model ----
(***************************************************************************)
(* Session orchestration layer of the time-series training backend         *)
(* (backend/app): the session store (sessions/utils.py), the status        *)
(* endpoint and the two background training jobs (training/router.py,      *)
(* train_prediciton_save/router.py) and the prediction reader              *)
(* (prediction/router.py).                                                 *)
(*                                                                         *)
(* Time is counted in ticks of half a day, so that timedelta.days (which   *)
(* rounds down to whole days) is a real division.                          *)
(***************************************************************************)
EXTENDS Integers, Sequences, FiniteSets, TLC

\* ------------------------------------------------------------------ bounds
MaxSessions == 1
ClockStep == 15
MaxNow == 30
MaxRows == 2

\* ------------------------------------------------------- program constants
TicksPerDay == 2
max_age_days == 7

Flows == {"train", "train_predict"}

\* --------------------------------------------------------- Python values
\* A Python value held in training_sessions or passed to json.dump: a dict
\* (status record), an int, or nothing.  Every value has the same shape so
\* that values of different kinds can be compared.
\* The value of the key create_time: no such key, or the string
\* datetime.isoformat() made of the time t.
NoKey == <<"nokey">>
IsoFormat(t) == <<"iso", t>>

EmptyDict ==
  [status |-> "", progress |-> 0, create_time |-> NoKey,
   submit_fields |-> FALSE, start_fields |-> FALSE,
   training_parameters |-> FALSE, model_path |-> FALSE,
   end_time |-> FALSE, error |-> "", leaderboard |-> "nokey"]

PyNone == [kind |-> "none", n |-> 0, d |-> EmptyDict]
PyInt(i) == [kind |-> "int", n |-> i, d |-> EmptyDict]
PyDict(r) == [kind |-> "dict", n |-> 0, d |-> r]

\* Python truthiness of a value (None, 0 and {} are falsy).
Truthy(v) ==
  CASE v.kind = "none" -> FALSE
    [] v.kind = "int" -> v.n # 0
    [] v.kind = "dict" -> v.d # EmptyDict

\* dict.update: the keys of the update replace those of the record.
Update(v, upd) == PyDict([k \in DOMAIN v.d |-> IF k \in DOMAIN upd THEN upd[k] ELSE v.d[k]])

\* ------------------------------------------------------ metadata.json text
NoFile == [kind |-> "nofile", n |-> 0, d |-> EmptyDict]
Truncated == [kind |-> "truncated", n |-> 0, d |-> EmptyDict]

\* json.dump(metadata, f, indent=2, default=str): a value json cannot encode
\* (a datetime object) is written as its str().
JsonDefault(x) == IF x[1] = "datetime" THEN <<"str", x[2]>> ELSE x

JsonDump(v) ==
  CASE v.kind = "dict" -> [kind |-> "object", n |-> 0,
                           d |-> [v.d EXCEPT !.create_time = JsonDefault(@)]]
    [] v.kind = "int" -> [kind |-> "number", n |-> v.n, d |-> EmptyDict]
    [] OTHER -> [kind |-> "null", n |-> 0, d |-> EmptyDict]

\* json.load: the value, or JSONDecodeError (a ValueError) on an empty or
\* partial document.
JsonLoad(txt) ==
  CASE txt.kind = "object" -> [exc |-> "", val |-> PyDict(txt.d)]
    [] txt.kind = "number" -> [exc |-> "", val |-> PyInt(txt.n)]
    [] txt.kind = "null" -> [exc |-> "", val |-> PyNone]
    [] OTHER -> [exc |-> "ValueError", val |-> PyNone]

\* load_session_metadata: {} when the file does not exist.
load_session_metadata(txt) ==
  IF txt.kind = "nofile" THEN [exc |-> "", val |-> PyDict(EmptyDict)]
  ELSE JsonLoad(txt)

\* ------------------------------------------------------------ leaderboards
\* The strategy implementations of the code base, by their name attribute,
\* and those AutoMLManager.strategies registers.
Strategies == {"autogluon", "pycaret"}
Registered == {"autogluon"}

\* A leaderboard file: missing, or a header and rows.  The rows of the file
\* of one strategy have the columns model and score_val; those of the
\* combined file also have the column strategy.
Models == {"m1", "m2"}
Scores == {1, 2}
NoLb == [exists |-> FALSE, rows |-> <<>>]
Lb(rows) == [exists |-> TRUE, rows |-> rows]
BoundedSeq(S) == UNION {[1..n -> S] : n \in 0..MaxRows}
LbFiles == {NoLb} \cup {Lb(r) : r \in BoundedSeq([model : Models, score_val : Scores])}
BoardFiles ==
  {NoLb} \cup {Lb(r) : r \in BoundedSeq([model : Models, score_val : Scores,
                                         strategy : Strategies])}

\* df["strategy"] = strategy; df[["model", "score_val", "strategy"]]
Tagged(file, name) ==
  [i \in 1..Len(file.rows) |->
     [model |-> file.rows[i].model, score_val |-> file.rows[i].score_val, strategy |-> name]]

\* The loop over the names and pd.concat(dfs, ignore_index=True).
RECURSIVE ConcatFrom(_, _, _)
ConcatFrom(sessionFiles, names, i) ==
  IF i > Len(names) THEN <<>>
  ELSE (IF sessionFiles[names[i]].exists THEN Tagged(sessionFiles[names[i]], names[i]) ELSE <<>>)
         \o ConcatFrom(sessionFiles, names, i + 1)

\* sort_values(by="score_val", ascending=True): every order of the rows with
\* the scores ascending (the default sort keeps no order among equal scores).
RECURSIVE SortOrders(_, _)
SortOrders(rows, left) ==
  IF left = {} THEN {<<>>}
  ELSE UNION {{<<rows[i]>> \o r : r \in SortOrders(rows, left \ {i})} :
                i \in {j \in left : \A k \in left : rows[j].score_val <= rows[k].score_val}}

\* Mutant of sort_values: the frame is returned as concatenated.
sort_values_Unsorted(rows) == {rows}

sort_values(rows) == SortOrders(rows, DOMAIN rows)

LbColumns == <<"model", "score_val", "strategy">>

\* AutoMLManager.combine_leaderboards: the tables it can return.
combine_leaderboards(sessionFiles, names) ==
  IF \E i \in DOMAIN names : sessionFiles[names[i]].exists
  THEN {[columns |-> LbColumns, rows |-> r] : r \in sort_values(ConcatFrom(sessionFiles, names, 1))}
  ELSE {[columns |-> LbColumns, rows |-> <<>>]}

\* AutoMLManager.get_best_strategy on the content of <session>/leaderboard.csv:
\* pd.read_csv raises on a missing file, iloc[0] on a table without rows, and
\* the method returns None for a tag other than 'autogluon'.
BestStrategy(file) ==
  IF ~file.exists THEN [exc |-> "FileNotFoundError", ret |-> "None"]
  ELSE IF Len(file.rows) = 0 THEN [exc |-> "IndexError", ret |-> "None"]
  ELSE IF file.rows[1].strategy = "autogluon" THEN [exc |-> "", ret |-> "autogluon"]
  ELSE [exc |-> "", ret |-> "None"]

\* ---------------------------------------------------------------- state
VARIABLES
  up,        \* the server process is running
  now,       \* wall clock, in ticks
  nextId,    \* the next fresh session id (uuid4 never repeats)
  flow,      \* flow[s]: which endpoint accepted the session
  data,      \* data[s]: what validate_dataset found in the uploaded table
  pc,        \* pc[s]: position of the submission / background job of s
  mem,       \* training_sessions: mem[s] is PyNone when s is not a key
  dir,       \* dir[s]: the session directory exists
  files,     \* files[s]: files of the session directory but metadata.json
  text,      \* text[s]: content of metadata.json
  pending,   \* pending[s]: value being written by save_session_metadata
  resp,      \* response of the request handled in the last step
  createdAt, \* createdAt[s]: the time the endpoint created session s
  engine,    \* engine[s]: what the engines did with the data of s
  lbs,       \* lbs[s][n]: content of <session>/<n>/leaderboard.csv
  board,     \* board[s]: content of <session>/leaderboard.csv
  out        \* result of the last call of an AutoMLManager method

vars == <<up, now, nextId, flow, data, pc, mem, dir, files, text, pending, resp,
          createdAt, engine, lbs, board, out>>

\* The session ids a run can draw; the run's initial state fixes how many.
Sessions == DOMAIN pc

\* The leaderboard files of the sessions and the result of the manager.
LbVars == <<lbs, board, out>>

\* resp.read is the content of metadata.json the handler read, NotRead when
\* it read none.
NotRead == [kind |-> "notread", n |-> 0, d |-> EmptyDict]
\* resp.fields are the fields the detail of a 422 response lists.
NoResp == [op |-> "none", sid |-> 0, code |-> 0, hit |-> FALSE, body |-> PyNone,
           read |-> NotRead, fields |-> {}]

NoEngine == [tried |-> FALSE, ok |-> {}]
NoOut == [op |-> "none", sid |-> 0, names |-> <<>>,
          table |-> [columns |-> <<>>, rows |-> <<>>], exc |-> "", ret |-> "None"]

\* The session store after the process has started on an empty sessions
\* directory.
StoreFor(n) ==
  /\ up = TRUE
  /\ now = 0
  /\ nextId = 1
  /\ flow = [s \in 1..n |-> "train"]
  /\ data = [s \in 1..n |-> "unread"]
  /\ pc = [s \in 1..n |-> "idle"]
  /\ mem = [s \in 1..n |-> PyNone]
  /\ dir = [s \in 1..n |-> FALSE]
  /\ files = [s \in 1..n |-> {}]
  /\ text = [s \in 1..n |-> NoFile]
  /\ pending = [s \in 1..n |-> PyNone]
  /\ resp = NoResp
  /\ createdAt = [s \in 1..n |-> 0]
  /\ engine = [s \in 1..n |-> NoEngine]
  /\ out = NoOut

StoreInit == StoreFor(MaxSessions)

Init ==
  /\ StoreInit
  /\ lbs = [s \in Sessions |-> [n \in Strategies |-> NoLb]]
  /\ board = [s \in Sessions |-> NoLb]

Writing(s) == pending[s].kind # "none"

\* save_session_metadata, first half: open(path, "w") truncates the file.
\* The document reaches the file when the write finishes (FinishWrite).
BeginSave(s, v) ==
  /\ text' = [text EXCEPT ![s] = Truncated]
  /\ pending' = [pending EXCEPT ![s] = v]

\* save_session_metadata, second half: json.dump has written the document
\* and the file is closed.
FinishWrite(s) ==
  /\ up
  /\ Writing(s)
  /\ text' = [text EXCEPT ![s] = JsonDump(pending[s])]
  /\ pending' = [pending EXCEPT ![s] = PyNone]
  /\ resp' = NoResp
  /\ UNCHANGED <<up, now, nextId, flow, data, pc, mem, dir, files,
               createdAt, engine, lbs, board, out>>

\* ------------------------------------------------------------ submission
\* create_session_directory: os.makedirs(session_path, exist_ok=True) makes
\* the directory, or returns without an error when it exists.
create_session_directory(exists) == [exc |-> "", exists |-> TRUE]

\* Mutant of initial_status: create_time is the datetime object, not its
\* isoformat() string.
initial_status_datetime(t) ==
  [EmptyDict EXCEPT !.status = "initializing", !.create_time = <<"datetime", t>>,
                    !.submit_fields = TRUE, !.progress = 0]

initial_status(t) ==
  [EmptyDict EXCEPT !.status = "initializing", !.create_time = IsoFormat(t),
                    !.submit_fields = TRUE, !.progress = 0]

\* The params form field once json.loads has read it: the values of the
\* fields of TrainingParameters the payload sets.  Absent is a key the
\* payload does not hold; "" is the empty string, "[]" the empty list, "'*'"
\* the string '*'; numbers stand as their text and "'abc'" is a string that
\* is no number.
Absent == "absent"
ValidParams ==
  [datetime_column |-> "'date'", target_column |-> "'sales'", item_id_column |-> "'shop'",
   models_to_train |-> "'*'", prediction_length |-> "3", training_time_limit |-> "60"]

\* The payloads a client sends.
Payloads ==
  {ValidParams,
   [ValidParams EXCEPT !.target_column = ""],
   [ValidParams EXCEPT !.models_to_train = "[]"],
   [ValidParams EXCEPT !.prediction_length = "0"],
   [ValidParams EXCEPT !.training_time_limit = "-1"],
   [ValidParams EXCEPT !.datetime_column = "", !.prediction_length = "0"],
   [ValidParams EXCEPT !.datetime_column = Absent, !.prediction_length = "'abc'"],
   [ValidParams EXCEPT !.datetime_column = Absent, !.prediction_length = "'abc'",
                       !.item_id_column = ""]}

\* TrainingParameters(**params_dict): pydantic checks that the required
\* fields are there and that every value has the type of its field, and
\* raises one ValidationError (a ValueError) that lists every field it
\* rejects.  The class declares no other constraint.
RequiredFields == {"datetime_column", "target_column", "item_id_column"}
IntFields == {"prediction_length", "training_time_limit"}
TrainingParameters(p) ==
  LET rejected == {f \in RequiredFields : p[f] = Absent}
                    \cup {f \in IntFields : p[f] = "'abc'"}
  IN [exc |-> IF rejected = {} THEN "" ELSE "ValidationError", fields |-> rejected]

\* One payload for every outcome of TrainingParameters: the endpoint uses
\* nothing else of the payload in the steps modelled here.
Requests ==
  {CHOOSE p \in Payloads : TrainingParameters(p) = r :
     r \in {TrainingParameters(q) : q \in Payloads}}

\* train_model_endpoint up to the write of the initial record.
SubmitBegin(f, p) ==
  /\ up
  /\ TrainingParameters(p).exc = ""
  /\ nextId \in Sessions
  /\ pc[nextId] = "idle"
  /\ LET s == nextId IN
       /\ nextId' = nextId + 1
       /\ flow' = [flow EXCEPT ![s] = f]
       /\ dir' = [dir EXCEPT ![s] = create_session_directory(dir[s]).exists]
       /\ files' = [files EXCEPT ![s] = {"original", "training_data.parquet"}]
       /\ mem' = [mem EXCEPT ![s] = PyDict(initial_status(now))]
       /\ BeginSave(s, PyDict(initial_status(now)))
       /\ pc' = [pc EXCEPT ![s] = "submitting"]
       /\ createdAt' = [createdAt EXCEPT ![s] = now]
       /\ resp' = NoResp
  /\ UNCHANGED <<up, now, data, engine, lbs, board, out>>

\* Mutant of SubmitReturn: the endpoint answers while the initial record is
\* still being written.
SubmitReturn_BeforeSaved(s) ==
  /\ up
  /\ pc[s] = "submitting"
  /\ pc' = [pc EXCEPT ![s] = "scheduled"]
  /\ resp' = [NoResp EXCEPT !.op = "submit", !.sid = s, !.code = 200]
  /\ UNCHANGED <<up, now, nextId, flow, data, mem, dir, files, text, pending,
               createdAt, engine, lbs, board, out>>

\* background_tasks.add_task and the return of the endpoint.
SubmitReturn(s) ==
  /\ up
  /\ pc[s] = "submitting"
  /\ ~Writing(s)
  /\ pc' = [pc EXCEPT ![s] = "scheduled"]
  /\ resp' = [NoResp EXCEPT !.op = "submit", !.sid = s, !.code = 200]
  /\ UNCHANGED <<up, now, nextId, flow, data, mem, dir, files, text, pending,
               createdAt, engine, lbs, board, out>>


\* ---------------------------------------------------------- background job
text_to_progress(f) ==
  IF f = "train"
  THEN [preparation |-> 20, holidays |-> 30, missings |-> 40,
        dataframe |-> 50, training |-> 60, metadata |-> 90]
  ELSE [preparation |-> 10, holidays |-> 20, missings |-> 30,
        dataframe |-> 40, training |-> 50, metadata |-> 60]

\* Mutant of running_status: another label for the running job.
running_status_validating ==
  [EmptyDict EXCEPT !.status = "validating", !.progress = 0,
                    !.start_fields = TRUE, !.training_parameters = TRUE]

running_status ==
  [EmptyDict EXCEPT !.status = "running", !.progress = 0,
                    !.start_fields = TRUE, !.training_parameters = TRUE]

\* The job calls s are at (between submission and the return of the job).
JobPcs == {"scheduled", "started", "validated", "tm_preparation", "tm_holidays",
           "tm_missings", "tm_dataframe", "tm_predictor", "tm_training", "tm_fit",
           "tm_return", "predict", "end"}

JobFrame == UNCHANGED <<up, now, nextId, flow, dir, createdAt, lbs, board, out>>

\* str(e) of the exceptions a job can raise.  An HTTPException built with
\* keywords only has empty args, and its text is empty where the class
\* defines no __str__; the other exceptions carry a message, which stands
\* here under the name of the exception.
str(exc) == IF exc = "HTTPException" THEN "" ELSE exc

\* Mutant of ExceptHandler: the error is recorded but the status label is
\* left as it was.
ExceptHandler_StatusKept(s, msg) ==
  /\ mem' = [mem EXCEPT ![s] = Update(mem[s], [error |-> msg, end_time |-> TRUE])]
  /\ BeginSave(s, mem'[s])
  /\ pc' = [pc EXCEPT ![s] = "end"]

\* The except branch of the job: the record in training_sessions becomes
\* failed and is saved.
ExceptHandler(s, msg) ==
  /\ mem' = [mem EXCEPT ![s] = Update(mem[s], [status |-> "failed", error |-> msg, end_time |-> TRUE])]
  /\ BeginSave(s, mem'[s])
  /\ pc' = [pc EXCEPT ![s] = "end"]

\* status.update({"progress": p}); save_session_metadata(session_id, status)
ProgressStep(s, from, to, p) ==
  /\ up
  /\ pc[s] = from
  /\ ~Writing(s)
  /\ mem' = [mem EXCEPT ![s] = Update(mem[s], [progress |-> p])]
  /\ BeginSave(s, mem'[s])
  /\ pc' = [pc EXCEPT ![s] = to]
  /\ resp' = NoResp
  /\ UNCHANGED files
  /\ UNCHANGED <<data, engine>>
  /\ JobFrame

\* create_session_directory and the "running" record.
JobStart(s) ==
  /\ up
  /\ pc[s] = "scheduled"
  /\ ~Writing(s)
  /\ IF create_session_directory(dir[s]).exc = ""
     THEN /\ mem' = [mem EXCEPT ![s] = PyDict(running_status)]
          /\ BeginSave(s, mem'[s])
          /\ pc' = [pc EXCEPT ![s] = "started"]
     ELSE ExceptHandler(s, create_session_directory(dir[s]).exc)
  /\ resp' = NoResp
  /\ UNCHANGED files
  /\ UNCHANGED <<data, engine>>
  /\ JobFrame

\* What the uploaded table can be for validate_dataset: fine, without a
\* required column, with a datetime column that does not parse, or with a
\* target column that is not numeric.
DataKinds == {"ok", "missing_column", "bad_dates", "non_numeric_target"}

\* Mutant of validate_dataset: the check of the target column is missing.
validate_dataset_NoTargetCheck(d) ==
  CASE d = "missing_column" ->
         [is_valid |-> FALSE, errors |-> "missing required columns: <missing_cols>"]
    [] d = "bad_dates" ->
         [is_valid |-> FALSE, errors |-> "column <dt_col> holds invalid dates"]
    [] OTHER -> [is_valid |-> TRUE, errors |-> ""]

\* validate_dataset: is_valid and the error it appends before returning (the
\* messages of the source are Russian; each names the column).
validate_dataset(d) ==
  CASE d = "missing_column" ->
         [is_valid |-> FALSE, errors |-> "missing required columns: <missing_cols>"]
    [] d = "bad_dates" ->
         [is_valid |-> FALSE, errors |-> "column <dt_col> holds invalid dates"]
    [] d = "non_numeric_target" ->
         [is_valid |-> FALSE, errors |-> "column <tgt_col> must be numeric"]
    [] OTHER -> [is_valid |-> TRUE, errors |-> ""]

\* "Dannye ne proshli validatsiyu: " + "; ".join(errors)
validation_error(errors) ==
  CASE errors = "missing required columns: <missing_cols>" ->
         "validation failed: missing required columns: <missing_cols>"
    [] errors = "column <dt_col> holds invalid dates" ->
         "validation failed: column <dt_col> holds invalid dates"
    [] errors = "column <tgt_col> must be numeric" ->
         "validation failed: column <tgt_col> must be numeric"
    [] OTHER -> "validation failed: "

\* validate_dataset, then progress 10 or ValueError.  d is what the uploaded
\* table turns out to be.
Validate(s, d) ==
  /\ up
  /\ pc[s] = "started"
  /\ ~Writing(s)
  /\ data' = [data EXCEPT ![s] = d]
  /\ IF validate_dataset(d).is_valid
     THEN /\ mem' = [mem EXCEPT ![s] = Update(mem[s], [progress |-> 10])]
          /\ BeginSave(s, mem'[s])
          /\ pc' = [pc EXCEPT ![s] = "validated"]
     ELSE ExceptHandler(s, validation_error(validate_dataset(d).errors))
  /\ resp' = NoResp
  /\ UNCHANGED <<files, engine>>
  /\ JobFrame

\* os.makedirs(model_path) and the hand-over of train_model to a thread.
SetupModelDir(s) ==
  /\ up
  /\ pc[s] = "validated"
  /\ ~Writing(s)
  /\ files' = [files EXCEPT ![s] = @ \cup {"model"}]
  /\ pc' = [pc EXCEPT ![s] = "tm_preparation"]
  /\ resp' = NoResp
  /\ UNCHANGED <<mem, text, pending>>
  /\ UNCHANGED <<data, engine>>
  /\ JobFrame

TmPreparation(s) ==
  ProgressStep(s, "tm_preparation", "tm_holidays", text_to_progress(flow[s]).preparation)

TmHolidays(s) ==
  ProgressStep(s, "tm_holidays", "tm_missings", text_to_progress(flow[s]).holidays)

TmMissings(s) ==
  ProgressStep(s, "tm_missings", "tm_dataframe", text_to_progress(flow[s]).missings)

TmDataframe(s) ==
  ProgressStep(s, "tm_dataframe", "tm_predictor", text_to_progress(flow[s]).dataframe)

\* The save before the predictor is created: no update of the record.
TmCreatePredictor(s) ==
  /\ up
  /\ pc[s] = "tm_predictor"
  /\ ~Writing(s)
  /\ BeginSave(s, mem[s])
  /\ pc' = [pc EXCEPT ![s] = "tm_training"]
  /\ resp' = NoResp
  /\ UNCHANGED <<mem, files>>
  /\ UNCHANGED <<data, engine>>
  /\ JobFrame

TmTraining(s) ==
  ProgressStep(s, "tm_training", "tm_fit", text_to_progress(flow[s]).training)

\* Mutant of TmFit: the except branch of train_model logs the error and does
\* not raise it again.
TmFit_ErrorSwallowed(s, trainable) ==
  /\ up
  /\ pc[s] = "tm_fit"
  /\ ~Writing(s)
  /\ engine' = [engine EXCEPT ![s] = [tried |-> TRUE, ok |-> trainable]]
  /\ IF "autogluon" \in trainable
     THEN /\ files' = [files EXCEPT ![s] = @ \cup {"model/model_metadata.json", "model/leaderboard.csv"}]
          /\ mem' = [mem EXCEPT ![s] = Update(mem[s], [progress |-> 90])]
          /\ BeginSave(s, PyInt(text_to_progress(flow[s]).metadata))
     ELSE UNCHANGED <<files, mem, text, pending>>
  /\ pc' = [pc EXCEPT ![s] = "tm_return"]
  /\ resp' = NoResp
  /\ UNCHANGED data
  /\ JobFrame

\* train_model trains with one engine, TimeSeriesPredictor.fit of AutoGluon.
\* trainable is the set of strategies whose training succeeds on the data of
\* the session.  predictor.fit returns or raises; on return the model metadata and the
\* leaderboard are written under model_path, the progress becomes 90 and
\* save_session_metadata is called with text_to_progress['metadata'].
TmFit(s, trainable) ==
  /\ up
  /\ pc[s] = "tm_fit"
  /\ ~Writing(s)
  /\ engine' = [engine EXCEPT ![s] = [tried |-> TRUE, ok |-> trainable]]
  /\ IF "autogluon" \in trainable
     THEN /\ files' = [files EXCEPT ![s] = @ \cup {"model/model_metadata.json", "model/leaderboard.csv"}]
          /\ mem' = [mem EXCEPT ![s] = Update(mem[s], [progress |-> 90])]
          /\ BeginSave(s, PyInt(text_to_progress(flow[s]).metadata))
          /\ pc' = [pc EXCEPT ![s] = "tm_return"]
     ELSE /\ ExceptHandler(s, "Error in training process")
          /\ UNCHANGED files
  /\ resp' = NoResp
  /\ UNCHANGED data
  /\ JobFrame

\* run_training_async after train_model has returned.
completed_update ==
  [status |-> "completed", end_time |-> TRUE, progress |-> 100,
   model_path |-> TRUE, training_parameters |-> TRUE]

\* The label of the source is the Russian for "starting the forecast"; it is
\* written here in Latin letters.
PredictingLabel == "Nachinaem prognoz"

predicting_update ==
  [status |-> PredictingLabel, end_time |-> TRUE, progress |-> 70,
   model_path |-> TRUE, training_parameters |-> TRUE]

Finalize(s) ==
  /\ up
  /\ pc[s] = "tm_return"
  /\ ~Writing(s)
  /\ mem' = [mem EXCEPT ![s] = Update(mem[s], IF flow[s] = "train" THEN completed_update ELSE predicting_update)]
  /\ BeginSave(s, mem'[s])
  /\ pc' = [pc EXCEPT ![s] = IF flow[s] = "train" THEN "end" ELSE "predict"]
  /\ resp' = NoResp
  /\ UNCHANGED files
  /\ UNCHANGED <<data, engine>>
  /\ JobFrame

\* save_session_metadata of the final record raises in the job (the file
\* cannot be opened): the record was updated before the save, and the except
\* branch of the job marks it failed and saves it again, outside any try;
\* retryOk says whether that second save can open the file.  When it
\* cannot, the exception leaves the job.
JobSaveFails(s, retryOk) ==
  /\ up
  /\ pc[s] = "tm_return"
  /\ ~Writing(s)
  /\ mem' = [mem EXCEPT ![s] =
              Update(Update(mem[s], IF flow[s] = "train" THEN completed_update
                                    ELSE predicting_update),
                     [status |-> "failed", error |-> "OSError", end_time |-> TRUE])]
  /\ IF retryOk
     THEN /\ BeginSave(s, mem'[s])
          /\ pc' = [pc EXCEPT ![s] = "end"]
     ELSE /\ UNCHANGED <<text, pending>>
          /\ pc' = [pc EXCEPT ![s] = "raised"]
  /\ resp' = NoResp
  /\ UNCHANGED <<files, data, engine>>
  /\ JobFrame

\* AutoMLManager.get_best_strategy: reads <session>/leaderboard.csv.
get_best_strategy(s) ==
  [exc |-> BestStrategy(board[s]).exc, ret |-> BestStrategy(board[s]).ret,
   code |-> IF BestStrategy(board[s]).exc = "" THEN 200 ELSE 500]

\* AutoGluonStrategy.predict: 404 without the model directory, otherwise
\* the engine predicts or raises.
strategy_predict(s, engineOk) ==
  IF "autogluon" \notin files[s] THEN [exc |-> "HTTPException", code |-> 404]
  ELSE IF engineOk THEN [exc |-> "", code |-> 200]
  ELSE [exc |-> "HTTPException", code |-> 500]

\* predict_timeseries: the exception raised ("" for none) and its HTTP code.
predict_timeseries(s, engineOk) ==
  LET m == load_session_metadata(text[s]) IN
  IF ~dir[s] THEN [exc |-> "HTTPException", code |-> 404]
  ELSE IF m.exc # "" THEN [exc |-> m.exc, code |-> 500]
  ELSE IF ~Truthy(m.val) THEN [exc |-> "HTTPException", code |-> 404]
  ELSE IF m.val.kind # "dict" THEN [exc |-> "AttributeError", code |-> 500]
  ELSE IF ~m.val.d.training_parameters THEN [exc |-> "HTTPException", code |-> 400]
  ELSE IF "training_data.parquet" \notin files[s] THEN [exc |-> "HTTPException", code |-> 404]
  ELSE IF get_best_strategy(s).exc # ""
    THEN [exc |-> get_best_strategy(s).exc, code |-> 500]
  ELSE IF get_best_strategy(s).ret = "None" THEN [exc |-> "AttributeError", code |-> 500]
  ELSE strategy_predict(s, engineOk)

\* The prediction of the immediate-prediction flow: on success the file is
\* saved and the record becomes completed (it is not saved).
Predict(s, engineOk) ==
  /\ up
  /\ pc[s] = "predict"
  /\ ~Writing(s)
  /\ IF predict_timeseries(s, engineOk).exc = ""
     THEN /\ files' = [files EXCEPT ![s] = @ \cup {"prediction.xlsx"}]
          /\ mem' = [mem EXCEPT ![s] = Update(mem[s], [progress |-> 100, status |-> "completed"])]
          /\ pc' = [pc EXCEPT ![s] = "end"]
          /\ UNCHANGED <<text, pending>>
     ELSE /\ ExceptHandler(s, str(predict_timeseries(s, engineOk).exc))
          /\ UNCHANGED files
  /\ resp' = NoResp
  /\ UNCHANGED <<data, engine>>
  /\ JobFrame

JobStep(s) ==
  \/ JobStart(s)
  \/ \E d \in DataKinds : Validate(s, d)
  \/ SetupModelDir(s)
  \/ TmPreparation(s)
  \/ TmHolidays(s)
  \/ TmMissings(s)
  \/ TmDataframe(s)
  \/ TmCreatePredictor(s)
  \/ TmTraining(s)
  \/ \E trainable \in SUBSET Strategies : TmFit(s, trainable)
  \/ Finalize(s)
  \/ \E engineOk \in BOOLEAN : Predict(s, engineOk)

\* ----------------------------------------------------------- status poll
\* get_training_status: the value returned and the entry of
\* training_sessions afterwards.
\* Mutant of GetStatus: the record read from disk is returned but not stored
\* in training_sessions.
GetStatus_NotCached(cached, txt) ==
  LET m == load_session_metadata(txt) IN
  IF cached.kind # "none" THEN [ret |-> cached, cache |-> cached, hit |-> TRUE]
  ELSE IF m.exc # "" THEN [ret |-> PyNone, cache |-> cached, hit |-> FALSE]
  ELSE IF Truthy(m.val) THEN [ret |-> m.val, cache |-> cached, hit |-> FALSE]
  ELSE [ret |-> PyNone, cache |-> cached, hit |-> FALSE]

\* cached is the entry of training_sessions, txt the content of metadata.json.
GetStatus(cached, txt) ==
  LET m == load_session_metadata(txt) IN
  IF cached.kind # "none" THEN [ret |-> cached, cache |-> cached, hit |-> TRUE]
  ELSE IF m.exc # "" THEN [ret |-> PyNone, cache |-> cached, hit |-> FALSE]
  ELSE IF Truthy(m.val) THEN [ret |-> m.val, cache |-> m.val, hit |-> FALSE]
  ELSE [ret |-> PyNone, cache |-> cached, hit |-> FALSE]

get_training_status(s) == GetStatus(mem[s], text[s])

\* get_session_status: the HTTP code, the body and the entry of
\* training_sessions afterwards (the leaderboard is stored in the record).
get_session_status(s) ==
  LET g == get_training_status(s)
      lb == IF "model/leaderboard.csv" \in files[s] THEN "rows" ELSE "none"
  IN
  IF g.ret.kind = "none" THEN [code |-> 404, body |-> PyNone, cache |-> g.cache]
  ELSE IF g.ret.kind # "dict" THEN [code |-> 500, body |-> PyNone, cache |-> g.cache]
  ELSE IF g.ret.d.status # "completed" THEN [code |-> 200, body |-> g.ret, cache |-> g.cache]
  ELSE IF ~g.ret.d.model_path THEN [code |-> 500, body |-> PyNone, cache |-> g.cache]
  ELSE [code |-> 200, body |-> Update(g.ret, [leaderboard |-> lb]),
        cache |-> Update(g.ret, [leaderboard |-> lb])]

\* Mutant of Poll: the record read is stored by replacing the shared mapping
\* instead of setting one key of it.
Poll_ReplacesMapping(s) ==
  /\ up
  /\ LET r == get_session_status(s) IN
       /\ mem' = [t \in Sessions |-> IF t = s THEN r.cache ELSE PyNone]
       /\ resp' = [op |-> "status", sid |-> s, code |-> r.code,
                   hit |-> get_training_status(s).hit, body |-> r.body,
                   read |-> IF get_training_status(s).hit THEN NotRead ELSE text[s],
                   fields |-> {}]
  /\ UNCHANGED <<up, now, nextId, flow, data, pc, dir, files, text, pending,
               createdAt, engine, lbs, board, out>>

Poll(s) ==
  /\ up
  /\ LET r == get_session_status(s) IN
       /\ mem' = [mem EXCEPT ![s] = r.cache]
       /\ resp' = [op |-> "status", sid |-> s, code |-> r.code,
                   hit |-> get_training_status(s).hit, body |-> r.body,
                   read |-> IF get_training_status(s).hit THEN NotRead ELSE text[s],
                   fields |-> {}]
  /\ UNCHANGED <<up, now, nextId, flow, data, pc, dir, files, text, pending,
               createdAt, engine, lbs, board, out>>

\* ----------------------------------------------------- prediction request
\* Mutant of PredictEndpoint: the request marks the record of the session
\* as predicting.
PredictEndpoint_MarksRecord(s, engineOk) ==
  /\ up
  /\ LET r == predict_timeseries(s, engineOk) IN
       /\ files' = [files EXCEPT ![s] = IF r.exc = "" THEN @ \cup {"prediction.xlsx"} ELSE @]
       /\ resp' = [NoResp EXCEPT !.op = "predict", !.sid = s, !.code = r.code,
                                 !.read = IF dir[s] THEN text[s] ELSE NotRead]
  /\ mem' = [mem EXCEPT ![s] = IF mem[s].kind = "dict"
                                THEN Update(mem[s], [status |-> PredictingLabel])
                                ELSE mem[s]]
  /\ UNCHANGED <<up, now, nextId, flow, data, pc, dir, text, pending,
               createdAt, engine, lbs, board, out>>

\* GET /predict/{session_id}: predict_timeseries in a worker thread, then
\* save_prediction.
PredictEndpoint(s, engineOk) ==
  /\ up
  /\ LET r == predict_timeseries(s, engineOk) IN
       /\ files' = [files EXCEPT ![s] = IF r.exc = "" THEN @ \cup {"prediction.xlsx"} ELSE @]
       /\ resp' = [NoResp EXCEPT !.op = "predict", !.sid = s, !.code = r.code,
                                 !.read = IF dir[s] THEN text[s] ELSE NotRead]
  /\ UNCHANGED <<up, now, nextId, flow, data, pc, mem, dir, text, pending,
               createdAt, engine, lbs, board, out>>

\* -------------------------------------------------------- rejected submit
\* The parameters are no JSON document, or the file extension is not
\* supported: the endpoint raises 400 before it creates anything.  Like
\* every submission of the model it arrives while a session id is left.
SubmitReject(kind) ==
  /\ up
  /\ kind \in {"bad_json", "bad_ext"}
  /\ nextId \in Sessions
  /\ resp' = [NoResp EXCEPT !.op = "submit", !.code = 400]
  /\ UNCHANGED <<up, now, nextId, flow, data, pc, mem, dir, files, text, pending,
               createdAt, engine, lbs, board, out>>

\* TrainingParameters raises: the except ValueError branch answers 422 with
\* str(e), which lists the fields pydantic rejected.
SubmitInvalid(p) ==
  /\ up
  /\ TrainingParameters(p).exc # ""
  /\ nextId \in Sessions
  /\ resp' = [NoResp EXCEPT !.op = "submit", !.code = 422,
                            !.fields = TrainingParameters(p).fields]
  /\ UNCHANGED <<up, now, nextId, flow, data, pc, mem, dir, files, text, pending,
               createdAt, engine, lbs, board, out>>

\* The uploaded file cannot be read as a table: the session directory and
\* the original file are already written when the endpoint raises 400.
SubmitUnreadable(p) ==
  /\ up
  /\ TrainingParameters(p).exc = ""
  /\ nextId \in Sessions
  /\ pc[nextId] = "idle"
  /\ nextId' = nextId + 1
  /\ dir' = [dir EXCEPT ![nextId] = TRUE]
  /\ files' = [files EXCEPT ![nextId] = {"original"}]
  /\ pc' = [pc EXCEPT ![nextId] = "rejected"]
  /\ createdAt' = [createdAt EXCEPT ![nextId] = now]
  /\ resp' = [NoResp EXCEPT !.op = "submit", !.sid = nextId, !.code = 400]
  /\ UNCHANGED <<up, now, flow, data, mem, text, pending,
               engine, lbs, board, out>>

\* save_session_metadata of the initial record raises (the file cannot be
\* opened): the except branch of the endpoint marks the record of
\* training_sessions failed and saves it again; retryOk says whether that
\* second save can open the file.
\* Mutant of failed_status: the error is str(e) without the prefix, and the
\* exception has no message.
failed_status_BareMessage ==
  [status |-> "failed", error |-> "", end_time |-> TRUE]

failed_status ==
  [status |-> "failed", error |-> "initialization error: OSError", end_time |-> TRUE]

SubmitSaveFails(f, retryOk, p) ==
  /\ up
  /\ TrainingParameters(p).exc = ""
  /\ nextId \in Sessions
  /\ pc[nextId] = "idle"
  /\ LET s == nextId IN
       /\ nextId' = nextId + 1
       /\ flow' = [flow EXCEPT ![s] = f]
       /\ dir' = [dir EXCEPT ![s] = create_session_directory(dir[s]).exists]
       /\ files' = [files EXCEPT ![s] = {"original", "training_data.parquet"}]
       /\ createdAt' = [createdAt EXCEPT ![s] = now]
       /\ mem' = [mem EXCEPT ![s] = Update(PyDict(initial_status(now)), failed_status)]
       /\ IF retryOk
          THEN /\ BeginSave(s, mem'[s])
               /\ pc' = [pc EXCEPT ![s] = "submit_failing"]
               /\ resp' = NoResp
          ELSE /\ UNCHANGED <<text, pending>>
               /\ pc' = [pc EXCEPT ![s] = "rejected"]
               /\ resp' = [NoResp EXCEPT !.op = "submit", !.sid = s, !.code = 500]
  /\ UNCHANGED <<up, now, data, engine, lbs, board, out>>

\* The endpoint raises HTTPException(500) once the failed record is saved.
SubmitFailReturn(s) ==
  /\ up
  /\ pc[s] = "submit_failing"
  /\ ~Writing(s)
  /\ pc' = [pc EXCEPT ![s] = "rejected"]
  /\ resp' = [NoResp EXCEPT !.op = "submit", !.sid = s, !.code = 500]
  /\ UNCHANGED <<up, now, nextId, flow, data, mem, dir, files, text, pending,
                 createdAt, engine, lbs, board, out>>

\* ------------------------------------------------------ crash and restart
\* The process dies: training_sessions, the running handlers and jobs and
\* the unwritten part of a document are lost.
Crash ==
  /\ up
  /\ up' = FALSE
  /\ mem' = [s \in Sessions |-> PyNone]
  /\ pending' = [s \in Sessions |-> PyNone]
  /\ pc' = [s \in Sessions |->
             CASE pc[s] \in {"idle", "rejected", "aborted", "dead", "raised"} -> pc[s]
               [] pc[s] \in {"submitting", "submit_failing"} -> "aborted"
               [] pc[s] = "end" /\ ~Writing(s) -> "end"
               [] OTHER -> "dead"]
  /\ resp' = NoResp
  /\ UNCHANGED <<now, nextId, flow, data, dir, files, text,
               createdAt, engine, lbs, board, out>>

AdvanceClock ==
  /\ now + ClockStep <= MaxNow
  /\ now' = now + ClockStep
  /\ resp' = NoResp
  /\ UNCHANGED <<up, nextId, flow, data, pc, mem, dir, files, text, pending,
               createdAt, engine, lbs, board, out>>

\* datetime.fromisoformat(metadata.get("create_time", ""))
fromisoformat(x) ==
  IF x[1] \in {"iso", "str"} THEN [exc |-> "", t |-> x[2]] ELSE [exc |-> "ValueError", t |-> 0]

\* The body of the loop of cleanup_old_sessions for one directory: "delete",
\* "keep", "skip" (the except branch) or the exception that leaves the loop.
cleanup_one(s) ==
  LET m == load_session_metadata(text[s])
      c == fromisoformat(m.val.d.create_time)
      age_days == (now - c.t) \div TicksPerDay
  IN
  IF m.exc # "" THEN "skip"
  ELSE IF m.val.kind # "dict" THEN "AttributeError"
  ELSE IF c.exc # "" THEN "skip"
  ELSE IF age_days > max_age_days THEN "delete"
  ELSE "keep"

\* cleanup_old_sessions over the directories in the order os.listdir gave:
\* the exception that ended it ("" for none) and the directories removed.
RECURSIVE cleanup_loop(_, _, _)
cleanup_loop(order, i, deleted) ==
  IF i > Len(order) THEN [exc |-> "", deleted |-> deleted]
  ELSE IF cleanup_one(order[i]) = "AttributeError" THEN [exc |-> "AttributeError", deleted |-> deleted]
  ELSE cleanup_loop(order, i + 1,
                    IF cleanup_one(order[i]) = "delete" THEN deleted \cup {order[i]} ELSE deleted)

cleanup_old_sessions(order) == cleanup_loop(order, 1, {})

ListDirs == {o \in [1..Cardinality({s \in Sessions : dir[s]}) -> {s \in Sessions : dir[s]}] :
               \A i, j \in DOMAIN o : i # j => o[i] # o[j]}

\* Mutant of Startup: the start also schedules a job for every session whose
\* job the last run of the process left unfinished.
Startup_ResumesJobs(order) ==
  /\ ~up
  /\ LET r == cleanup_old_sessions(order) IN
       /\ up' = (r.exc = "")
       /\ dir' = [s \in Sessions |-> dir[s] /\ s \notin r.deleted]
       /\ files' = [s \in Sessions |-> IF s \in r.deleted THEN {} ELSE files[s]]
       /\ text' = [s \in Sessions |-> IF s \in r.deleted THEN NoFile ELSE text[s]]
       /\ resp' = [NoResp EXCEPT !.op = "cleanup", !.code = IF r.exc = "" THEN 200 ELSE 500]
  /\ pc' = [s \in Sessions |-> IF pc[s] = "dead" THEN "scheduled" ELSE pc[s]]
  /\ UNCHANGED <<now, nextId, flow, data, mem, pending,
               createdAt, engine, lbs, board, out>>

\* The process starts: the routers are imported and run
\* cleanup_old_sessions(); an exception there aborts the start.
Startup(order) ==
  /\ ~up
  /\ LET r == cleanup_old_sessions(order) IN
       /\ up' = (r.exc = "")
       /\ dir' = [s \in Sessions |-> dir[s] /\ s \notin r.deleted]
       /\ files' = [s \in Sessions |-> IF s \in r.deleted THEN {} ELSE files[s]]
       /\ text' = [s \in Sessions |-> IF s \in r.deleted THEN NoFile ELSE text[s]]
       /\ resp' = [NoResp EXCEPT !.op = "cleanup", !.code = IF r.exc = "" THEN 200 ELSE 500]
  /\ UNCHANGED <<now, nextId, flow, data, pc, mem, pending,
               createdAt, engine, lbs, board, out>>

Next ==
  \/ \E f \in Flows, p \in Requests : SubmitBegin(f, p)
  \/ \E s \in Sessions : SubmitReturn(s)
  \/ \E s \in Sessions : FinishWrite(s)
  \/ \E s \in Sessions : JobStep(s)
  \/ \E s \in Sessions : Poll(s)
  \/ \E s \in Sessions, engineOk \in BOOLEAN : PredictEndpoint(s, engineOk)
  \/ \E kind \in {"bad_json", "bad_ext"} : SubmitReject(kind)
  \/ \E p \in Requests : SubmitInvalid(p)
  \/ \E p \in Requests : SubmitUnreadable(p)
  \/ \E f \in Flows, retryOk \in BOOLEAN, p \in Requests : SubmitSaveFails(f, retryOk, p)
  \/ \E s \in Sessions : SubmitFailReturn(s)
  \/ \E s \in Sessions, retryOk \in BOOLEAN : JobSaveFails(s, retryOk)
  \/ Crash
  \/ AdvanceClock
  \/ \E order \in ListDirs : Startup(order)

Spec == Init /\ [][Next]_vars

\* The process stays up: submissions, the background jobs and status polls,
\* with the event loop and the thread pool running every job that can run.
NextLive ==
  \/ \E f \in Flows, p \in Requests : SubmitBegin(f, p)
  \/ \E s \in Sessions : SubmitReturn(s)
  \/ \E s \in Sessions : FinishWrite(s)
  \/ \E s \in Sessions : JobStep(s)
  \/ \E s \in Sessions : Poll(s)

LiveSpec ==
  /\ Init
  /\ [][NextLive]_vars
  /\ \A s \in 1..MaxSessions : WF_vars(JobStep(s)) /\ WF_vars(FinishWrite(s))

\* Two sessions side by side: submissions, the background jobs and the
\* worker threads of both in any order, and status polls.
PairInit ==
  /\ StoreFor(2)
  /\ lbs = [s \in Sessions |-> [n \in Strategies |-> NoLb]]
  /\ board = [s \in Sessions |-> NoLb]

PairSpec == PairInit /\ [][NextLive]_vars

\* ------------------------------------------------- the manager's methods
\* AutoMLManager.combine_leaderboards(session_id, strategies) on the
\* leaderboard files of a session.
CombineLeaderboards(s, names) ==
  /\ out = NoOut
  /\ \E t \in combine_leaderboards(lbs[s], names) :
       out' = [NoOut EXCEPT !.op = "combine", !.sid = s, !.names = names, !.table = t]
  /\ UNCHANGED <<up, now, nextId, flow, data, pc, mem, dir, files, text, pending, resp,
                 createdAt, engine, lbs, board>>

\* AutoMLManager.get_best_strategy(session_id).
GetBestStrategy(s) ==
  /\ out = NoOut
  /\ out' = [NoOut EXCEPT !.op = "best", !.sid = s,
                          !.exc = get_best_strategy(s).exc, !.ret = get_best_strategy(s).ret]
  /\ UNCHANGED <<up, now, nextId, flow, data, pc, mem, dir, files, text, pending, resp,
                 createdAt, engine, lbs, board>>

\* The lists of strategy names a caller can pass.
NameLists == {<<>>, <<"autogluon">>, <<"pycaret">>, <<"autogluon", "pycaret">>,
              <<"pycaret", "autogluon">>}

\* One call of a method of the manager, on every content the leaderboard
\* files of one session can have.
LbInit ==
  /\ StoreInit
  /\ \E s0 \in Sessions :
       \/ /\ \E f \in [Strategies -> LbFiles] :
               lbs = [s \in Sessions |-> IF s = s0 THEN f ELSE [n \in Strategies |-> NoLb]]
          /\ board = [s \in Sessions |-> NoLb]
       \/ /\ lbs = [s \in Sessions |-> [n \in Strategies |-> NoLb]]
          /\ \E b \in BoardFiles : board = [s \in Sessions |-> IF s = s0 THEN b ELSE NoLb]

LbNext ==
  \/ \E s \in Sessions, names \in NameLists : CombineLeaderboards(s, names)
  \/ \E s \in Sessions : GetBestStrategy(s)

LbSpec == LbInit /\ [][LbNext]_vars

\* ------------------------------------------------------------------ claims
Terminal == {"completed", "failed"}

\* The submission of s was answered "accepted" (its id is known to a client).
Accepted(s) == pc[s] \in JobPcs \cup {"dead", "raised"}

\* The job of s has returned.
JobReturned(s) == pc[s] = "end" /\ ~Writing(s)

SpecLabels == {"initializing", "validating", "preparing", "training",
               "predicting", "completed", "failed"}

CodeLabels == {"initializing", "running", PredictingLabel, "completed", "failed"}

LabelSteps ==
  {<<"initializing", "running">>, <<"running", PredictingLabel>>,
   <<"running", "completed">>, <<PredictingLabel, "completed">>}
    \cup {<<l, "failed">> : l \in CodeLabels \ Terminal}

\* metadata.json of s holds a status record.
RecordOnDisk(s) == text[s].kind = "object" /\ text[s].d # EmptyDict

\* Two values are the same but for the leaderboard a status poll adds.
Equivalent(a, b) ==
  /\ a.kind = b.kind
  /\ a.n = b.n
  /\ \A k \in DOMAIN a.d \ {"leaderboard"} : a.d[k] = b.d[k]

\* The creation time metadata.json of s records, if it records one.
RecordedCreation(s) ==
  IF text[s].kind = "object" THEN fromisoformat(text[s].d.create_time)
  ELSE [exc |-> "ValueError", t |-> 0]

\* C1: the progress of a session's in-memory record never decreases from one
\* state to the next, in either flow.
C1_ProgressNeverDecreases ==
  [][\A s \in Sessions :
       (mem[s].kind = "dict" /\ mem'[s].kind = "dict")
         => mem'[s].d.progress >= mem[s].d.progress]_vars

\* C2: a scheduled job eventually returns with the session completed or
\* failed (the process staying up, every engine call returning or raising).
C2_JobReachesTerminal ==
  \A s \in 1..MaxSessions :
    (pc[s] = "scheduled") ~> (JobReturned(s) /\ mem[s].kind = "dict" /\ mem[s].d.status \in Terminal)

\* C2, witness: a job of the immediate-prediction flow has trained, failed
\* in its prediction step and returned.
C2_Witness ==
  \E s \in Sessions :
    /\ JobReturned(s) /\ flow[s] = "train_predict"
    /\ mem[s].d.status = "failed" /\ mem[s].d.progress = 70

\* C3: when no write of the record of s is under way, metadata.json holds
\* the status label and the progress of the in-memory record.
C3_DiskEqualsMemory ==
  \A s \in Sessions :
    (up /\ mem[s].kind = "dict" /\ ~Writing(s))
      => /\ text[s].kind = "object"
         /\ text[s].d.status = mem[s].d.status
         /\ text[s].d.progress = mem[s].d.progress

\* C4: a status poll for an accepted session whose directory exists is
\* answered with a record carrying a status label.
C4_PollWellFormed ==
  (resp.op = "status" /\ Accepted(resp.sid) /\ dir[resp.sid])
    => (resp.code = 200 /\ resp.body.kind = "dict" /\ resp.body.d.status # "")

\* C5: when the submit endpoint answers "accepted", get_status finds the
\* session in memory and on disk with status initializing and progress 0,
\* and the job has not started.
C5_SubmitVisible ==
  \A s \in Sessions :
    (resp.op = "submit" /\ resp.code = 200 /\ resp.sid = s)
      => /\ pc[s] = "scheduled"
         /\ get_training_status(s).ret.kind = "dict"
         /\ get_training_status(s).ret.d.status = "initializing"
         /\ get_training_status(s).ret.d.progress = 0
         /\ GetStatus(PyNone, text[s]).ret = get_training_status(s).ret

\* C5, witness: the endpoint of the immediate-prediction flow has just
\* answered "accepted" after a restart of the process.
C5_Witness ==
  /\ resp.op = "submit" /\ resp.code = 200
  /\ \E s \in Sessions : resp.sid = s /\ flow[s] = "train_predict" /\ now > 0

\* C6 as stated: every stored label is a state of the machine initializing,
\* validating, preparing, training, predicting, completed, failed.
C6_OnlySpecLabels ==
  \A s \in Sessions :
    /\ mem[s].kind = "dict" => mem[s].d.status \in SpecLabels
    /\ text[s].kind = "object" => text[s].d.status \in SpecLabels

\* C6 as amended: the stored labels are initializing, running, the
\* predicting label, completed and failed, and the in-memory label moves
\* only along initializing -> running -> (predicting label) -> completed,
\* or to failed from a label that is not terminal.
C6_CodeLabelPath ==
  /\ [](\A s \in Sessions :
          /\ mem[s].kind = "dict" => mem[s].d.status \in CodeLabels
          /\ text[s].kind = "object" => text[s].d.status \in CodeLabels)
  /\ [][\A s \in Sessions :
          (mem[s].kind = "dict" /\ mem'[s].kind = "dict" /\ mem'[s].d.status # mem[s].d.status)
            => <<mem[s].d.status, mem'[s].d.status>> \in LabelSteps]_vars

\* C6, witness: a session has gone from running to the predicting label and
\* the label is saved.
C6_Witness ==
  \E s \in Sessions :
    /\ mem[s].kind = "dict" /\ mem[s].d.status = PredictingLabel
    /\ text[s].kind = "object" /\ text[s].d.status = PredictingLabel

\* C7: a reader of the metadata.json of an accepted session never reads an
\* empty or partial document.
C7_ReaderSeesWholeDocument ==
  (resp.op \in {"status", "predict"} /\ Accepted(resp.sid)) => resp.read.kind # "truncated"

\* C8: get_status answers from training_sessions when the session is there;
\* otherwise from the record on disk, which it stores in training_sessions;
\* with neither it answers 404 and leaves training_sessions as it was.
C8_GetStatusLookup ==
  [][\A s \in Sessions :
       (resp'.op = "status" /\ resp'.sid = s) =>
         /\ mem[s].kind = "dict" =>
              (resp'.hit /\ resp'.code = 200 /\ resp'.read = NotRead
                 /\ resp'.body.d.status = mem[s].d.status
                 /\ resp'.body.d.progress = mem[s].d.progress)
         /\ (mem[s].kind = "none" /\ RecordOnDisk(s)) =>
              (~resp'.hit /\ resp'.code = 200
                 /\ resp'.body.d.status = text[s].d.status
                 /\ resp'.body.d.progress = text[s].d.progress
                 /\ mem'[s] = resp'.body)
         /\ (mem[s].kind = "none" /\ text[s].kind = "nofile") =>
              (resp'.code = 404 /\ mem' = mem)]_vars

\* C8, witness: after a restart a poll was answered from the record on disk,
\* which is now in training_sessions.
C8_Witness ==
  /\ resp.op = "status" /\ ~resp.hit /\ resp.code = 200
  /\ mem[resp.sid] = resp.body
  /\ resp.body.d.status = "running"

\* C9: when save_session_metadata has written a status record, get_status
\* returns an equivalent record from the cache, and the same record from the
\* file when the cache is empty.
C9_RoundTrip ==
  [][\A s \in Sessions :
       (Writing(s) /\ up' /\ ~Writing(s)' /\ pending[s].kind = "dict") =>
         /\ Equivalent(GetStatus(mem'[s], text'[s]).ret, pending[s])
         /\ GetStatus(PyNone, text'[s]).ret = pending[s]]_vars

\* C9, witness: the completed record was written, the process restarted and
\* a poll read the record back from the file.
C9_Witness ==
  /\ resp.op = "status" /\ ~resp.hit /\ resp.code = 200
  /\ resp.body.d.status = "completed"
  /\ resp.body.d.progress = 100

\* C10: cleanup removes a directory only when the recorded creation time is
\* more than max_age_days old, leaves a directory whose age it cannot
\* determine, and completes.
C10_CleanupOnlyOld ==
  [][resp'.op = "cleanup" =>
       /\ \A s \in Sessions :
            (dir[s] /\ ~dir'[s]) =>
              (RecordedCreation(s).exc = ""
                 /\ now - RecordedCreation(s).t > max_age_days * TicksPerDay)
       /\ \A s \in Sessions :
            (dir[s] /\ RecordedCreation(s).exc # "") =>
              (dir'[s] /\ text'[s] = text[s] /\ files'[s] = files[s])
       /\ resp'.code = 200]_vars

\* The age of session s in whole days, as timedelta.days counts it.
AgeDays(s) == (now - createdAt[s]) \div TicksPerDay

\* C11: when cleanup has returned, no directory remains of a session with a
\* status record on disk that was created more than max_age_days (whole)
\* days ago, whatever point of its lifecycle it reached.
C11_CleanupRemovesEveryOld ==
  [][(resp'.op = "cleanup" /\ resp'.code = 200) =>
       \A s \in Sessions :
         (dir[s] /\ RecordOnDisk(s) /\ AgeDays(s) > max_age_days) => ~dir'[s]]_vars

\* C12: a call of create_session_directory for a session whose directory
\* exists fails with AlreadyExists (the call at the start of the job).
C12_CreateFailsOnExisting ==
  [][\A s \in Sessions :
       (up' /\ pc[s] = "scheduled" /\ pc'[s] # "scheduled" /\ dir[s])
         => create_session_directory(dir[s]).exc = "AlreadyExists"]_vars

\* The error a failed validation must leave in the record, naming the column.
ColumnMessage ==
  [missing_column |-> "validation failed: missing required columns: <missing_cols>",
   bad_dates |-> "validation failed: column <dt_col> holds invalid dates",
   non_numeric_target |-> "validation failed: column <tgt_col> must be numeric"]

\* C13: once validation has failed for a session, its record (in memory and
\* on disk) is failed with the validation message naming the column, no
\* engine was called and no model directory was made, at any later time.
C13_ValidationFailureAborts ==
  \A s \in Sessions :
    data[s] \in DOMAIN ColumnMessage =>
      /\ ~engine[s].tried
      /\ files[s] \cap {"model", "model/model_metadata.json", "model/leaderboard.csv"} = {}
      /\ mem[s].kind = "dict" =>
           (mem[s].d.status = "failed" /\ mem[s].d.error = ColumnMessage[data[s]])
      /\ text[s].kind = "object" =>
           (text[s].d.status = "failed" /\ text[s].d.error = ColumnMessage[data[s]])

\* C13, witness: the job of a session with a non-numeric target column has
\* returned and the failed record is on disk.
C13_Witness ==
  \E s \in Sessions :
    /\ data[s] = "non_numeric_target" /\ JobReturned(s)
    /\ text[s].kind = "object" /\ text[s].d.status = "failed"

\* C14: when the training of one strategy raised on the data of a session
\* and that of another strategy succeeds, the session is completed once its
\* job has returned.
C14_OneFailureTolerated ==
  \A s \in Sessions :
    (JobReturned(s) /\ mem[s].kind = "dict" /\ engine[s].tried
       /\ engine[s].ok # {} /\ engine[s].ok # Strategies)
      => mem[s].d.status = "completed"

\* C15: once the training of every strategy has failed on the data of a
\* session, its record (in memory and on disk) is failed with an error
\* message, no leaderboard was written, and the combined leaderboard of the
\* session has no rows.
C15_AllFailedMeansFailed ==
  \A s \in Sessions :
    (engine[s].tried /\ engine[s].ok = {}) =>
      /\ mem[s].kind = "dict" => (mem[s].d.status = "failed" /\ mem[s].d.error # "")
      /\ text[s].kind = "object" => (text[s].d.status = "failed" /\ text[s].d.error # "")
      /\ "model/leaderboard.csv" \notin files[s]
      /\ \A names \in NameLists :
           \A t \in combine_leaderboards(lbs[s], names) : t.rows = <<>>

\* C15, witness: the fit has raised in the immediate-prediction flow, the
\* job has returned and a poll shows the failed record.
C15_Witness ==
  \E s \in Sessions :
    /\ engine[s].tried /\ engine[s].ok = {} /\ flow[s] = "train_predict"
    /\ JobReturned(s)
    /\ resp.op = "status" /\ resp.sid = s /\ resp.code = 200
    /\ resp.body.d.status = "failed"

\* The rows a table of leaderboard rows can hold.
LbRows == [model : Models, score_val : Scores, strategy : Strategies]

\* How often row r occurs in the files that exist under <session>/<name>/
\* for the names passed, read as rows of strategy <name>.
TimesInFiles(s, names, r) ==
  Cardinality({p \in (DOMAIN names) \X (1..MaxRows) :
                 /\ names[p[1]] = r.strategy
                 /\ lbs[s][names[p[1]]].exists
                 /\ p[2] \in DOMAIN lbs[s][names[p[1]]].rows
                 /\ lbs[s][names[p[1]]].rows[p[2]].model = r.model
                 /\ lbs[s][names[p[1]]].rows[p[2]].score_val = r.score_val})

TimesInTable(rows, r) == Cardinality({i \in DOMAIN rows : rows[i] = r})

\* C16: combine_leaderboards returns, without an error, a table with the
\* columns (model, score_val, strategy) that holds exactly the rows of the
\* files that exist for the names given, each tagged with the strategy of its
\* file, in ascending order of score; missing files add nothing, and without
\* any file the table has no rows.
C16_CombineIsTaggedSortedUnion ==
  out.op = "combine" =>
    /\ out.exc = ""
    /\ out.table.columns = LbColumns
    /\ \A r \in LbRows :
         TimesInTable(out.table.rows, r) = TimesInFiles(out.sid, out.names, r)
    /\ \A i, j \in DOMAIN out.table.rows :
         i < j => out.table.rows[i].score_val <= out.table.rows[j].score_val
    /\ (\A i \in DOMAIN out.names : ~lbs[out.sid][out.names[i]].exists)
         => out.table.rows = <<>>

\* C16, witness: two names are passed, the file of one is missing and the
\* file of the other holds two rows with the higher score first.
C16_Witness ==
  /\ out.op = "combine"
  /\ out.names = <<"pycaret", "autogluon">>
  /\ ~lbs[out.sid]["pycaret"].exists
  /\ Len(lbs[out.sid]["autogluon"].rows) = 2
  /\ lbs[out.sid]["autogluon"].rows[1].score_val > lbs[out.sid]["autogluon"].rows[2].score_val
  /\ Len(out.table.rows) = 2
  /\ out.table.rows[1].strategy = "autogluon"

\* C17: when the first row of the combined leaderboard of a session is tagged
\* with strategy S, get_best_strategy returns the implementation of S, for
\* every strategy implementation of the code base.
C17_BestIsTopRowStrategy ==
  (out.op = "best" /\ board[out.sid].exists /\ Len(board[out.sid].rows) > 0)
    => (out.exc = "" /\ out.ret = board[out.sid].rows[1].strategy)

\* C18: when the combined leaderboard of a session is missing or has no rows,
\* get_best_strategy fails with the NoModelTrained error and returns no
\* strategy.
C18_NoModelTrainedOnEmpty ==
  (out.op = "best" /\ (~board[out.sid].exists \/ Len(board[out.sid].rows) = 0))
    => out.exc = "NoModelTrained"

\* What a prediction needs of session s: the directory, a status record of a
\* completed training, the training snapshot, the combined leaderboard and
\* the model artifacts of the winning strategy.
PredictionReady(s) ==
  /\ dir[s]
  /\ RecordOnDisk(s) /\ text[s].d.status = "completed"
  /\ "training_data.parquet" \in files[s]
  /\ board[s].exists /\ Len(board[s].rows) > 0
  /\ "autogluon" \in files[s]

\* C19: a prediction request for a session that lacks any of these is
\* answered 404, neither with an internal error nor with predictions.  The
\* requests that read metadata.json while it is being rewritten are left
\* out: their answer is the matter of C7.
C19_PredictMissingIs404 ==
  (resp.op = "predict" /\ resp.read.kind # "truncated" /\ ~PredictionReady(resp.sid))
    => resp.code = 404

Offending(p) ==
  {f \in RequiredFields : p[f] \in {Absent, ""}}
    \cup {f \in {"models_to_train"} : p[f] = "[]"}
    \cup {f \in IntFields : p[f] \in {"'abc'", "0", "-1"}}

\* The endpoint handles a submission with the payload p in this step.
SubmitsWith(p) ==
  \/ \E f \in Flows : SubmitBegin(f, p)
  \/ SubmitInvalid(p)
  \/ SubmitUnreadable(p)
  \/ \E f \in Flows, retryOk \in BOOLEAN : SubmitSaveFails(f, retryOk, p)

\* C21: a submission whose payload has offending fields is answered 422
\* with every offending field listed, and starts no session.
C21_InvalidParametersRejected ==
  [][\A p \in Payloads :
       (Offending(p) # {} /\ SubmitsWith(p))
         => /\ resp'.op = "submit" /\ resp'.code = 422
            /\ resp'.fields = Offending(p)
            /\ nextId' = nextId /\ pc' = pc]_vars

\* C22: a status response that reports a session completed carries the
\* combined leaderboard of that session: the session has one, with the rows
\* of its strategies, and the response holds rows, not an absent value.
C22_CompletedHasCombinedLeaderboard ==
  (resp.op = "status" /\ resp.code = 200 /\ resp.body.kind = "dict"
     /\ resp.body.d.status = "completed")
    => /\ resp.body.d.leaderboard = "rows"
       /\ board[resp.sid].exists /\ Len(board[resp.sid].rows) > 0

\* C23: a session is completed, in memory or on disk, only when its combined
\* leaderboard <session>/leaderboard.csv exists, and the prediction step of
\* the immediate-prediction flow finds that file.
C23_CompletedAfterCombined ==
  \A s \in Sessions :
    /\ (mem[s].kind = "dict" /\ mem[s].d.status = "completed") => board[s].exists
    /\ (text[s].kind = "object" /\ text[s].d.status = "completed") => board[s].exists
    /\ (up /\ pc[s] = "predict" /\ ~Writing(s)) => get_best_strategy(s).exc # "FileNotFoundError"

\* The job of s has met an exception: the validation refused the table, the
\* fit raised, or the prediction step could not run.
JobRaised(s) ==
  \/ data[s] \in DOMAIN ColumnMessage
  \/ engine[s].tried /\ "autogluon" \notin engine[s].ok
  \/ flow[s] = "train_predict" /\ engine[s].tried /\ pc[s] = "end"

\* C24: no exception leaves the background job of a session, and a job that
\* met an exception ends with the failed record and the error text in
\* memory.
C24_JobCatchesEverything ==
  \A s \in Sessions :
    /\ pc[s] # "raised"
    /\ (pc[s] = "end" /\ mem[s].kind = "dict" /\ JobRaised(s))
         => (mem[s].d.status = "failed" /\ mem[s].d.error # "")

\* C25: a session id is taken into use only by a submission, which finds it
\* fresh (no record in memory, no directory, no metadata.json); a job is
\* scheduled for it only by the return of that submission; and once the job
\* of a session is past its start, or lost, no step schedules a job for
\* that id again.
C25_OneJobPerSession ==
  [][\A s \in Sessions :
       /\ (pc[s] = "idle" /\ pc'[s] # "idle")
            => /\ s = nextId /\ nextId' = s + 1
               /\ mem[s] = PyNone /\ ~dir[s] /\ text[s] = NoFile
       /\ (pc[s] # "scheduled" /\ pc'[s] = "scheduled")
            => /\ pc[s] = "submitting"
               /\ resp'.op = "submit" /\ resp'.sid = s /\ resp'.code = 200
       /\ pc[s] \notin {"idle", "submitting", "scheduled"}
            => pc'[s] \notin {"idle", "submitting", "scheduled"}]_vars

\* C25, witness: the job of a session was lost in a crash, the process has
\* started again and a status poll has found the record of the session.
C25_Witness ==
  \E s \in Sessions :
    /\ up /\ pc[s] = "dead"
    /\ resp.op = "status" /\ resp.sid = s /\ resp.code = 200

\* The status label a poll of s would return now ("" when it returns no
\* record).
ObservedStatus(s) ==
  IF get_training_status(s).ret.kind = "dict" THEN get_training_status(s).ret.d.status ELSE ""

\* C26: while the process runs, once a poll of a session would return
\* completed or failed, no step of a job, of its exception handler, of a
\* poll or of a prediction request changes the label a poll would return.
C26_TerminalAbsorbing ==
  [][\A s \in Sessions :
       (up /\ up' /\ ObservedStatus(s) \in Terminal)
         => ObservedStatus(s)' = ObservedStatus(s)]_vars

\* C26, witness: a session is completed in memory and a prediction request
\* for it has just been answered.
C26_Witness ==
  \E s \in Sessions :
    /\ up /\ resp.op = "predict" /\ resp.sid = s
    /\ mem[s].kind = "dict" /\ mem[s].d.status = "completed"

\* C27: the fields written at submission (create_time, original_file_name,
\* processed_file_path) stay in the record of an accepted session, in memory
\* and on disk, through the start of the job and every progress update.
C27_SubmitFieldsKept ==
  \A s \in Sessions :
    Accepted(s) =>
      /\ mem[s].kind = "dict"
           => (mem[s].d.submit_fields /\ mem[s].d.create_time = IsoFormat(createdAt[s]))
      /\ text[s].kind = "object"
           => (text[s].d.submit_fields /\ text[s].d.create_time = IsoFormat(createdAt[s]))

\* C28: after a submission was answered with a client error (400 or 422),
\* nothing exists for the session id the request drew: no directory, no
\* file, no record in memory and no metadata.json.
C28_RejectedLeavesNothing ==
  (resp.op = "submit" /\ resp.code \in {400, 422} /\ resp.sid \in Sessions)
    => /\ ~dir[resp.sid] /\ files[resp.sid] = {}
       /\ mem[resp.sid] = PyNone /\ text[resp.sid] = NoFile

\* A step taken on behalf of session s: its submission, a step of its job or
\* of the write of its record, or a poll of its status.
OnBehalfOf(s) ==
  \/ s = nextId /\ \E f \in Flows, p \in Payloads : SubmitBegin(f, p)
  \/ SubmitReturn(s)
  \/ FinishWrite(s)
  \/ JobStep(s)
  \/ Poll(s)

\* C29: with two sessions running side by side, a step taken on behalf of
\* one session leaves the record in memory, the document being written,
\* metadata.json, the directory and the files of every other session as
\* they are.
C29_SessionsIsolated ==
  [][\A s \in Sessions :
       OnBehalfOf(s) =>
         \A t \in Sessions \ {s} :
           /\ mem'[t] = mem[t] /\ pending'[t] = pending[t] /\ text'[t] = text[t]
           /\ dir'[t] = dir[t] /\ files'[t] = files[t] /\ pc'[t] = pc[t]]_vars

\* C29, witness: the worker threads of two sessions are both in train_model
\* and a poll of one of them has just been answered from memory.
C29_Witness ==
  \E s, t \in Sessions :
    /\ s # t
    /\ pc[s] \in {"tm_holidays", "tm_missings", "tm_dataframe", "tm_predictor", "tm_training"}
    /\ pc[t] \in {"tm_holidays", "tm_missings", "tm_dataframe", "tm_predictor", "tm_training"}
    /\ resp.op = "status" /\ resp.sid = s /\ resp.hit
    /\ mem[s].kind = "dict" /\ mem[t].kind = "dict" /\ mem[s].d.progress # mem[t].d.progress

\* C30: in the record a session has in memory, in both flows, status
\* completed comes with progress 100 and a model_path, and progress 100
\* comes with status completed.
C30_CompletedIffProgress100 ==
  \A s \in Sessions :
    mem[s].kind = "dict" =>
      /\ mem[s].d.status = "completed" => (mem[s].d.progress = 100 /\ mem[s].d.model_path)
      /\ mem[s].d.progress = 100 => mem[s].d.status = "completed"
====
